---- MODULE Spec2Model ----
(***************************************************************************)
(* A model of the backup / restore engine of marka                         *)
(* (src/backup/backup_manager.py, class BackupManager) and of the parts of *)
(* src/db/database_manager.py it relies on.                                *)
(*                                                                         *)
(* Files are byte sequences (sequences of naturals below 256).  A value    *)
(* that an operation may fail to produce is a record [ok, data].           *)
(***************************************************************************)
EXTENDS Integers, Sequences, FiniteSets, TLC

VARIABLES
    \* ---- the transform pipeline applied to one bundle
    tBundle,        \* the bundle handed to _process_backup
    tCompress,      \* options['compress']
    tEncrypt,       \* options['encrypt']
    tKey,           \* self.options['encryption_key']
    tArtifact,      \* what _process_backup wrote, [ok, data]
    tRestored,      \* what _process_restore wrote to temp.tar, [ok, data]
    tpc,            \* "start", "stored", "raised", "restored"
    \* ---- _apply_retention_policy on a backup directory
    rPresent,       \* names of the files in backup_dir
    rMtime,         \* st_mtime of each name
    rData,          \* the bytes of each file (<<>> when absent)
    rLocked,        \* names whose os.unlink fails (permissions, open handles)
    rMaxBackups,    \* self.options['max_backups']
    rRetentionDays, \* self.options['retention_days']
    rFiles,         \* the local list backup_files
    rpc,            \* "idle", "listed", "counted", "done"
    rUnlinkCalls,   \* number of os.unlink calls made on each name
    rErrLog,        \* logger.error entries: <<pass, name>>
    rInitial,       \* history: the artifacts present when the run started
    \* ---- the manager, its collaborators and the files restore works on
    encryption_key, \* self.options['encryption_key']
    dmKind,         \* "sync": the repository's DatabaseManager; "async": a
                    \* manager whose close/initialize/create_backup_info are
                    \* coroutines, as BackupManager's await expressions expect
    dmOpen,         \* the database manager holds an initialised connection
    live,           \* the bytes of the live database file (db_path)
    snapshot,       \* the file db_path + '.pre-restore', [ok, data]
    restoreDir,     \* backup_dir/restore exists
    tempTar,        \* the file restore/temp.tar, [ok, data]
    candidate,      \* the file restore/<basename(db_path)>, [ok, data]
    stray,          \* a file extracted into restore/ under another name
    records,        \* rows of the backups table: the recorded paths
    inv,            \* per invocation: position, arguments, signals, history
                    \* (swallowed: the deletions whose error was ignored)
    running,        \* the invocation holding the event loop, 0 when none
    slots,          \* the invocations callers may run
    calls,          \* invocations started so far
    processed,      \* history: final names _process_backup returned normally for
    process,        \* the application process: "running" with a constructed
                    \* BackupManager, or "stopped"
    \* ---- list_backups on a backup directory other actors write to
    lpc,            \* "idle", "listdir", "returned", "raised"
    lNames,         \* the artifact names os.listdir gave
    lResult,        \* the list list_backups returned
    lRemoved,       \* history: names another actor removed from backup_dir
    \* ---- SecurityManager: login attempts and rate limit of one identifier
    clock,          \* datetime.utcnow(), in ticks
    failed_attempts, \* self.failed_attempts.get(identifier): [present, count,
                    \* locked, lockedUntil]
    loginResult,    \* what the last check_login_attempts returned, and when
    failuresSince,  \* history: failures recorded since the last successful
                    \* login or the last lockout that ran out
    lockDeadline,   \* history: when the lockout last reported runs out
    rate_limiters,  \* self.rate_limiters.get(identifier): [present, requests,
                    \* firstRequest]
    window_ms,      \* the window_ms the caller passes, in ticks
    rateResult,     \* what the last check_rate_limit returned
    allowedLog      \* history: the times of the calls answered allowed=true

xformVars == <<tBundle, tCompress, tEncrypt, tKey, tArtifact, tRestored, tpc>>
retVars == <<rPresent, rMtime, rData, rLocked, rMaxBackups, rRetentionDays, rFiles,
             rpc, rUnlinkCalls, rErrLog, rInitial>>
fileVars == <<live, snapshot, restoreDir, tempTar, candidate, stray>>
opVars == <<encryption_key, dmKind, dmOpen, fileVars, records, inv, running,
            slots, calls, processed, process>>
listVars == <<lpc, lNames, lResult, lRemoved>>
loginVars == <<failed_attempts, loginResult, failuresSince, lockDeadline>>
rateVars == <<rate_limiters, window_ms, rateResult, allowedLog>>
secVars == <<clock, loginVars, rateVars>>
vars == <<xformVars, retVars, opVars, listVars, secVars>>

(***************************************************************************)
(* Bounds of the model.                                                    *)
(***************************************************************************)
MaxDbLen == 2        \* longest database payload drawn for the transform checks
MaxByte == 1         \* payload bytes are drawn from 0..MaxByte
MaxArtifacts == 3    \* artifact names in the backup directory
MaxTime == 2         \* modification times are 0..MaxTime days; now = MaxTime
MaxCalls == 2        \* invocations of create_backup / restore_backup started

(***************************************************************************)
(* Byte-level helpers.                                                     *)
(***************************************************************************)
ByteMod == 256

RECURSIVE SumSeq(_)
SumSeq(s) == IF s = <<>> THEN 0 ELSE Head(s) + SumSeq(Tail(s))

Ok(d) == [ok |-> TRUE, data |-> d]
Err == [ok |-> FALSE, data |-> <<>>]

(***************************************************************************)
(* tarfile: _create_temp_backup writes a tar with the single member        *)
(* basename(db_path).  A tar is modelled as                                *)
(*   <<member name, payload length>> \o payload \o <<end-of-archive>>.     *)
(* The first byte of a real tar is the first character of the member name  *)
(* ('m' of marka_database.db, 109).                                        *)
(***************************************************************************)
DbMemberName == 109
OtherMemberName == 111
TarEnd == 0

TarAdd(name, content) == <<name, Len(content)>> \o content \o <<TarEnd>>

\* tarfile.open(..., 'r'): the header must be readable (the length field plays
\* the part of the header checksum) and the archive properly ended.
TarIsReadable(data) ==
    /\ Len(data) >= 3
    /\ data[1] \in {DbMemberName, OtherMemberName}
    /\ data[2] = Len(data) - 3
    /\ data[Len(data)] = TarEnd

TarMemberName(data) == data[1]
TarMemberData(data) == SubSeq(data, 3, Len(data) - 1)

(***************************************************************************)
(* zlib: compress is modelled as run-length encoding framed by the zlib    *)
(* header byte (0x78) and a checksum of the uncompressed data (adler32).   *)
(***************************************************************************)
ZlibHeader == 120

Adler(d) == (1 + SumSeq(d)) % ByteMod

RECURSIVE RunLength(_, _)
\* the length of the run of v at the head of s
RunLength(s, v) ==
    IF s = <<>> \/ Head(s) # v THEN 0 ELSE 1 + RunLength(Tail(s), v)

RECURSIVE Deflate(_)
Deflate(s) ==
    IF s = <<>> THEN <<>>
    ELSE LET n == RunLength(s, Head(s))
         IN  <<n, Head(s)>> \o Deflate(SubSeq(s, n + 1, Len(s)))

RECURSIVE Repeat(_, _)
Repeat(v, n) == IF n = 0 THEN <<>> ELSE <<v>> \o Repeat(v, n - 1)

RECURSIVE Inflate(_)
\* the run-length pairs expanded; Err when the stream is malformed
Inflate(s) ==
    IF s = <<>> THEN Ok(<<>>)
    ELSE IF Len(s) < 2 \/ s[1] = 0 THEN Err
    ELSE LET rest == Inflate(SubSeq(s, 3, Len(s)))
         IN  IF rest.ok THEN Ok(Repeat(s[2], s[1]) \o rest.data) ELSE Err

ZlibCompress(d) == <<ZlibHeader>> \o Deflate(d) \o <<Adler(d)>>

\* zlib.decompress raises zlib.error on a bad header, a malformed stream or
\* a checksum mismatch.
ZlibDecompress(x) ==
    IF Len(x) < 2 \/ x[1] # ZlibHeader THEN Err
    ELSE LET body == Inflate(SubSeq(x, 2, Len(x) - 1))
         IN  IF body.ok /\ Adler(body.data) = x[Len(x)] THEN body ELSE Err

(***************************************************************************)
(* cryptography.fernet: a key is valid when it decodes to FernetKeyLen     *)
(* bytes (32 in the library, 2 here: one for the cipher, one for the MAC). *)
(* A token is <<version, iv>> \o ciphertext \o <<hmac>>.                   *)
(***************************************************************************)
FernetKeyLen == 2
FernetVersion == 128

KeyA == <<3, 5>>
KeyB == <<4, 9>>
\* os.getenv('BACKUP_ENCRYPTION_KEY', 'default-encryption-key'): the default
\* is 22 characters, which is not the encoding of a 32-byte key.
DefaultKey == <<100, 101, 102>>

FernetKeyValid(key) == Len(key) = FernetKeyLen

FernetCipher(key, iv, d) == [i \in 1..Len(d) |-> (d[i] + key[1] + iv) % ByteMod]
FernetPlain(key, iv, c) ==
    [i \in 1..Len(c) |-> (c[i] + 2 * ByteMod - key[1] - iv) % ByteMod]
FernetHmac(key, signed) == (key[2] + SumSeq(signed)) % ByteMod

\* Fernet(key).encrypt(d): raises ValueError on an invalid key.
FernetEncrypt(key, iv, d) ==
    IF ~FernetKeyValid(key) THEN Err
    ELSE LET signed == <<FernetVersion, iv>> \o FernetCipher(key, iv, d)
         IN  Ok(signed \o <<FernetHmac(key, signed)>>)

\* Fernet(key).decrypt(token): ValueError on an invalid key, InvalidToken on
\* a wrong version byte or a wrong HMAC.
FernetDecrypt(key, token) ==
    IF ~FernetKeyValid(key) THEN Err
    ELSE IF Len(token) < 3 \/ token[1] # FernetVersion THEN Err
    ELSE LET signed == SubSeq(token, 1, Len(token) - 1)
         IN  IF FernetHmac(key, signed) # token[Len(token)] THEN Err
             ELSE Ok(FernetPlain(key, token[2], SubSeq(token, 3, Len(token) - 1)))

(***************************************************************************)
(* BackupManager._process_backup, lines 168-175: the bytes written to the  *)
(* destination, or Err when the transform raises.                          *)
(***************************************************************************)
BackupCompressStep(data, compress) ==
    IF compress THEN ZlibCompress(data) ELSE data

BackupEncryptStep(data, encrypt, key, iv) ==
    IF encrypt THEN FernetEncrypt(key, iv, data) ELSE Ok(data)

BackupTransformEncryptFirst(data, compress, encrypt, key, iv) ==
    LET enc == BackupEncryptStep(data, encrypt, key, iv)
    IN  IF enc.ok THEN Ok(BackupCompressStep(enc.data, compress)) ELSE Err

BackupTransform(data, compress, encrypt, key, iv) ==
    BackupEncryptStep(BackupCompressStep(data, compress), encrypt, key, iv)

(***************************************************************************)
(* BackupManager._process_restore, lines 331-344: the bytes written to     *)
(* restore/temp.tar.  Both detection steps swallow every exception.        *)
(***************************************************************************)
RestoreDecryptStep(data, key) ==
    LET dec == FernetDecrypt(key, data)
    IN  IF dec.ok THEN dec.data ELSE data

RestoreDecompressStep(data) ==
    LET unz == ZlibDecompress(data)
    IN  IF unz.ok THEN unz.data ELSE data

RestoreTransform(data, key) ==
    RestoreDecompressStep(RestoreDecryptStep(data, key))

(***************************************************************************)
(* The transform pipeline as a state machine: one bundle, one forward      *)
(* transform, one inverse transform with the same key.                     *)
(***************************************************************************)
RECURSIVE SeqsUpTo(_, _)
SeqsUpTo(S, n) ==
    IF n = 0 THEN {<<>>}
    ELSE LET shorter == SeqsUpTo(S, n - 1)
         IN  shorter \cup {Append(s, x) : s \in shorter, x \in S}

\* _create_temp_backup, line 156: tar.add(db_path, arcname=basename(db_path))
Bundles == {TarAdd(DbMemberName, c) : c \in SeqsUpTo(0..MaxByte, MaxDbLen)}
Keys == {KeyA, KeyB, DefaultKey}
Ivs == {0, 1}

NoData == [ok |-> FALSE, data |-> <<>>]

XformInit ==
    /\ tBundle \in Bundles
    /\ tCompress \in BOOLEAN
    /\ tEncrypt \in BOOLEAN
    /\ tKey \in Keys
    /\ tArtifact = NoData
    /\ tRestored = NoData
    /\ tpc = "start"

XformIdle ==
    /\ tBundle = <<>>
    /\ tCompress = FALSE
    /\ tEncrypt = FALSE
    /\ tKey = DefaultKey
    /\ tArtifact = NoData
    /\ tRestored = NoData
    /\ tpc = "off"

\* _process_backup, lines 161-183, on the in-memory data
XformProcessBackup ==
    /\ tpc = "start"
    /\ \E iv \in Ivs :
          LET out == BackupTransform(tBundle, tCompress, tEncrypt, tKey, iv)
          IN  /\ tArtifact' = out
              /\ tpc' = IF out.ok THEN "stored" ELSE "raised"
    /\ UNCHANGED <<tBundle, tCompress, tEncrypt, tKey, tRestored>>

\* _process_restore, lines 327-349, on the in-memory data
XformProcessRestore ==
    /\ tpc = "stored"
    /\ tRestored' = Ok(RestoreTransform(tArtifact.data, tKey))
    /\ tpc' = "restored"
    /\ UNCHANGED <<tBundle, tCompress, tEncrypt, tKey, tArtifact>>

(***************************************************************************)
(* _apply_retention_policy, lines 226-266.                                 *)
(***************************************************************************)
\* A name is <<n, extension>>; file.endswith('.marka') looks at the extension.
ArtifactNames == {<<n, "marka">> : n \in 1..MaxArtifacts}
TmpNames == {<<n, "marka.tmp">> : n \in 1..MaxArtifacts}
DirNames == ArtifactNames \cup TmpNames

EndsWithMarka(name) == name[2] = "marka"

Now == MaxTime

\* line 255: (datetime.now() - timedelta(days=retention_days)).timestamp()
CutoffTime(days) == Now - days

IsExpiredOffByOne(mtime, days) == mtime < CutoffTime(days) - 1

\* line 257: file['time'] < cutoff_time
IsExpired(mtime, days) == mtime < CutoffTime(days)

\* os.listdir returns the names in arbitrary order
Listings(S) ==
    {f \in [1..Cardinality(S) -> S] : \A i, j \in DOMAIN f : i # j => f[i] # f[j]}

RECURSIVE InsertNewestFirst(_, _, _)
\* e placed behind every entry at least as new: equal times keep their order
InsertNewestFirst(sorted, e, time) ==
    IF sorted = <<>> THEN <<e>>
    ELSE IF time[Head(sorted)] >= time[e]
         THEN <<Head(sorted)>> \o InsertNewestFirst(Tail(sorted), e, time)
         ELSE <<e>> \o sorted

RECURSIVE SortNewestFirst(_, _)
\* line 243: backup_files.sort(key=lambda x: x['time'], reverse=True), stable
SortNewestFirst(list, time) ==
    IF list = <<>> THEN <<>>
    ELSE InsertNewestFirst(SortNewestFirst(SubSeq(list, 1, Len(list) - 1), time),
                           list[Len(list)], time)

BeyondMaxBackupsOffByOne(files, maxBackups) ==
    IF Len(files) > maxBackups THEN SubSeq(files, maxBackups + 2, Len(files))
    ELSE <<>>

\* line 246-247: backup_files[max_backups:] when len(backup_files) > max_backups
BeyondMaxBackups(files, maxBackups) ==
    IF Len(files) > maxBackups THEN SubSeq(files, maxBackups + 1, Len(files))
    ELSE <<>>

\* lines 256-257: the entries of backup_files older than the cutoff
ExpiredEntries(files, time, days) ==
    SelectSeq(files, LAMBDA f : IsExpired(time[f], days))

SeqRange(s) == {s[i] : i \in DOMAIN s}

\* os.unlink(path) raises when the file is gone or cannot be removed
UnlinkFails(name, present, locked) == name \notin present \/ name \in locked

RECURSIVE UnlinkAllStopAtError(_, _, _)
UnlinkAllStopAtError(targets, present, locked) ==
    IF targets = <<>> THEN present
    ELSE IF UnlinkFails(Head(targets), present, locked) THEN present
    ELSE UnlinkAllStopAtError(Tail(targets), present \ {Head(targets)}, locked)

RECURSIVE UnlinkAll(_, _, _)
\* the directory after the unlink calls of one pass, made in list order
UnlinkAll(targets, present, locked) ==
    IF targets = <<>> THEN present
    ELSE UnlinkAll(Tail(targets),
                   IF UnlinkFails(Head(targets), present, locked) THEN present
                   ELSE present \ {Head(targets)},
                   locked)

RECURSIVE UnlinkErrors(_, _, _)
\* the names whose unlink raised during one pass
UnlinkErrors(targets, present, locked) ==
    IF targets = <<>> THEN {}
    ELSE IF UnlinkFails(Head(targets), present, locked)
         THEN {Head(targets)} \cup UnlinkErrors(Tail(targets), present, locked)
         ELSE UnlinkErrors(Tail(targets), present \ {Head(targets)}, locked)

CountCalls(targets, name) == Cardinality({i \in DOMAIN targets : targets[i] = name})

RetInit ==
    /\ rPresent \in SUBSET (ArtifactNames \cup {<<1, "marka.tmp">>})
    /\ rMtime \in [DirNames -> 0..MaxTime]
    /\ \A n \in DirNames : n \notin rPresent \/ ~EndsWithMarka(n) => rMtime[n] = 0
    /\ rData = [n \in DirNames |-> <<>>]
    /\ rLocked \in SUBSET {<<1, "marka">>}
    /\ rMaxBackups \in 0..MaxArtifacts
    /\ rRetentionDays \in 1..MaxTime
    /\ rFiles = <<>>
    /\ rpc = "idle"
    /\ rUnlinkCalls = [n \in DirNames |-> 0]
    /\ rErrLog = {}
    /\ rInitial = {n \in rPresent : EndsWithMarka(n)}

RetIdle ==
    /\ rPresent = {}
    /\ rMtime = [n \in DirNames |-> 0]
    /\ rData = [n \in DirNames |-> <<>>]
    /\ rLocked = {}
    /\ rMaxBackups = 0
    /\ rRetentionDays = 1
    /\ rFiles = <<>>
    /\ rpc = "off"
    /\ rUnlinkCalls = [n \in DirNames |-> 0]
    /\ rErrLog = {}
    /\ rInitial = {}

\* lines 229-243: list the directory, stat each artifact, sort newest first;
\* an exception of os.listdir or os.stat leaves through lines 264-266
RetentionList ==
    /\ rpc = "idle"
    /\ \E fault \in BOOLEAN :
          IF fault
          THEN rpc' = "raised" /\ UNCHANGED rFiles
          ELSE /\ \E listing \in Listings(rPresent) :
                     rFiles' = SortNewestFirst(SelectSeq(listing, EndsWithMarka),
                                               rMtime)
               /\ rpc' = "listed"
    /\ UNCHANGED <<rPresent, rMtime, rData, rLocked, rMaxBackups, rRetentionDays,
                   rUnlinkCalls, rErrLog, rInitial>>

\* lines 245-252: delete the files beyond max_backups
RetentionCountPass ==
    /\ rpc = "listed"
    /\ LET targets == BeyondMaxBackups(rFiles, rMaxBackups)
       IN  /\ rPresent' = UnlinkAll(targets, rPresent, rLocked)
           /\ rUnlinkCalls' =
                 [n \in DirNames |-> rUnlinkCalls[n] + CountCalls(targets, n)]
           /\ rErrLog' = rErrLog \cup
                 {<<"count", n>> : n \in UnlinkErrors(targets, rPresent, rLocked)}
    /\ rpc' = "counted"
    /\ UNCHANGED <<rMtime, rData, rLocked, rMaxBackups, rRetentionDays, rFiles,
                   rInitial>>

\* lines 254-262: delete the files older than retention_days
RetentionAgePass ==
    /\ rpc = "counted"
    /\ LET targets == ExpiredEntries(rFiles, rMtime, rRetentionDays)
       IN  /\ rPresent' = UnlinkAll(targets, rPresent, rLocked)
           /\ rUnlinkCalls' =
                 [n \in DirNames |-> rUnlinkCalls[n] + CountCalls(targets, n)]
           /\ rErrLog' = rErrLog \cup
                 {<<"age", n>> : n \in UnlinkErrors(targets, rPresent, rLocked)}
    /\ rpc' = "done"
    /\ UNCHANGED <<rMtime, rData, rLocked, rMaxBackups, rRetentionDays, rFiles,
                   rInitial>>

(***************************************************************************)
(* list_backups, lines 414-444, and a backup directory that other actors   *)
(* (another process, the user) remove files from.                          *)
(***************************************************************************)
Zones == {"fixed", "dst"}

\* For list_backups a tick of st_mtime is read as half an hour.  In zone
\* "dst" daylight saving time ends at tick DstEnd, where the local clock is
\* set back by DstShift ticks.
DstEnd == 1
DstShift == 2

\* line 436: datetime.fromtimestamp(stat.st_mtime), the naive local time
FromTimestamp(t, zone) ==
    IF zone = "dst" /\ t < DstEnd THEN t + DstShift ELSE t

\* lines 432-437: the entry of one artifact
BackupEntry(name, zone) ==
    [name |-> name, path |-> <<"backups", name>>, size |-> Len(rData[name]),
     modified |-> FromTimestamp(rMtime[name], zone)]

\* line 439: sorted(backups, key=lambda x: x['modified'], reverse=True)
SortedByModified(names, zone) ==
    LET sorted == SortNewestFirst(names,
                     [n \in DirNames |-> FromTimestamp(rMtime[n], zone)])
    IN  [k \in DOMAIN sorted |-> BackupEntry(sorted[k], zone)]

ListIdle ==
    /\ lpc = "off"
    /\ lNames = <<>>
    /\ lResult = <<>>
    /\ lRemoved = {}

\* a directory of artifacts of different sizes and times, and a stray file
SharedDirInit ==
    /\ rPresent \in SUBSET (ArtifactNames \cup {<<1, "marka.tmp">>})
    /\ rMtime \in [DirNames -> 0..MaxTime]
    /\ \A n \in DirNames : n \notin rPresent => rMtime[n] = 0
    /\ rData = [n \in DirNames |->
                  IF n \in rPresent THEN [k \in 1..n[1] |-> 0] ELSE <<>>]
    /\ rLocked = {}
    /\ rMaxBackups = MaxArtifacts - 1
    /\ rRetentionDays = 1
    /\ rFiles = <<>>
    /\ rUnlinkCalls = [n \in DirNames |-> 0]
    /\ rErrLog = {}
    /\ rInitial = {n \in rPresent : EndsWithMarka(n)}
    /\ lNames = <<>>
    /\ lResult = <<>>
    /\ lRemoved = {}

\* line 429: os.listdir(backup_dir) and the endswith filter of line 430
ListBackupsListdir ==
    /\ lpc = "idle"
    /\ \E fault \in BOOLEAN :
          IF fault
          THEN lpc' = "raised" /\ UNCHANGED lNames
          ELSE /\ \E listing \in Listings(rPresent) :
                     lNames' = SelectSeq(listing, EndsWithMarka)
               /\ lpc' = "listdir"
    /\ UNCHANGED <<lResult, lRemoved, retVars>>

\* lines 431-443: os.stat of each listed name, the entries, the sort and the
\* return; os.stat of a name that is gone raises, which leaves through the
\* except clause of lines 441-443
ListBackupsStat ==
    /\ lpc = "listdir"
    /\ IF SeqRange(lNames) \subseteq rPresent
       THEN /\ \E zone \in Zones : lResult' = SortedByModified(lNames, zone)
            /\ lpc' = "returned"
       ELSE /\ lpc' = "raised"
            /\ UNCHANGED lResult
    /\ UNCHANGED <<lNames, lRemoved, retVars>>

\* line 232: os.listdir(backup_dir) and the endswith filter of line 233
RetentionListdir ==
    /\ rpc = "idle"
    /\ \E fault \in BOOLEAN :
          IF fault
          THEN rpc' = "raised" /\ UNCHANGED rFiles
          ELSE /\ \E listing \in Listings(rPresent) :
                     rFiles' = SelectSeq(listing, EndsWithMarka)
               /\ rpc' = "listdir"
    /\ UNCHANGED <<rPresent, rMtime, rData, rLocked, rMaxBackups, rRetentionDays,
                   rUnlinkCalls, rErrLog, rInitial, listVars, secVars>>

\* lines 234-243: os.stat of each listed name and the sort; os.stat of a
\* name that is gone raises, which leaves through lines 264-266
RetentionStat ==
    /\ rpc = "listdir"
    /\ IF SeqRange(rFiles) \subseteq rPresent
       THEN /\ rFiles' = SortNewestFirst(rFiles, rMtime)
            /\ rpc' = "listed"
       ELSE /\ rpc' = "raised"
            /\ UNCHANGED rFiles
    /\ UNCHANGED <<rPresent, rMtime, rData, rLocked, rMaxBackups, rRetentionDays,
                   rUnlinkCalls, rErrLog, rInitial, listVars, secVars>>

\* another actor removes an artifact while an operation is between its
\* first and its last access to the directory
OtherActorRemoves ==
    /\ lpc \in {"idle", "listdir"} \/ rpc \in {"idle", "listdir", "listed", "counted"}
    /\ \E n \in rPresent \cap ArtifactNames :
          /\ rPresent' = rPresent \ {n}
          /\ lRemoved' = lRemoved \cup {n}
    /\ UNCHANGED <<rMtime, rData, rLocked, rMaxBackups, rRetentionDays, rFiles,
                   rpc, rUnlinkCalls, rErrLog, rInitial, lpc, lNames, lResult>>

(***************************************************************************)
(* The database file as sqlite3 sees it: <<magic, number of rows>> \o rows.*)
(***************************************************************************)
SqliteMagic == 83

MkDb(rows) == <<SqliteMagic, Len(rows)>> \o rows

\* PRAGMA integrity_check, lines 367-371: "ok", another result row
\* ("corrupt"), or an exception because the file is not a database
\* ("notadb").  A zero-length file is an empty database.
IntegrityCheck(data) ==
    IF data = <<>> THEN "ok"
    ELSE IF Len(data) < 2 \/ data[1] # SqliteMagic THEN "notadb"
    ELSE IF data[2] # Len(data) - 2 THEN "corrupt"
    ELSE "ok"

VerifyDatabaseFileAnyRow(data) == IntegrityCheck(data) # "notadb"

\* _verify_database_file, lines 362-378: returns normally only on 'ok'
VerifyDatabaseFile(data) == IntegrityCheck(data) = "ok"

\* _verify_backup_file, lines 315-322: the file exists and is not empty
VerifyBackupFile(file) == file.ok /\ Len(file.data) # 0

\* what an interrupted write leaves at its destination: nothing but the
\* created file, or everything but the last byte
PartialWrites(data) ==
    {SubSeq(data, 1, n) : n \in {0, Len(data) - 1} \cap 0..Len(data)}

\* line 352: tar.extractall(path=restore_dir) writes below restore_dir only
LiveAfterExtractOverDb(liveData, memberData) == memberData

LiveAfterExtract(liveData, memberData) == liveData

RollbackSourceCandidate(snap, cand) == cand

\* line 400: shutil.copy2(backup_current_path, db_path)
RollbackSource(snap, cand) == snap

BackupPathJoinWorks(dir, name) == Ok(name)

\* line 97: str(Path(backup_dir)) / backup_name divides a str by a str, which
\* raises TypeError on every call, before the try block is entered
BackupPathJoin(dir, name) == Err

(***************************************************************************)
(* Invocations of create_backup and restore_backup.                        *)
(***************************************************************************)
Invocations == {1, 2}

InvIdle ==
    [pc |-> "Idle", op |-> "none", arg |-> NoData, liveAtCall |-> <<>>,
     openAtCall |-> TRUE, failedAt |-> "none", checked |-> "none",
     rollback |-> "none", reinit |-> FALSE, env |-> "none", name |-> 0,
     progress |-> <<>>, complete |-> <<>>, swallowed |-> {}]

ReplacingPcs == {"Replacing", "ReplSnapshot", "ReplCopy", "ReplInit",
                 "ReplRollback", "ReplRollbackInit", "ReplFinally"}
BeforeReplacing == {"Verifying", "PreparingWorkspace", "Transforming",
                    "IntegrityChecking"}
Terminated == {"Complete", "Failed"}

InProgress(i) == inv[i].pc \notin ({"Idle"} \cup Terminated)

\* the invocation is at p and may take the event loop
Runs(i, p) == i \in slots /\ inv[i].pc = p /\ running \in {0, i}

AdvanceSkippingCleanUp(i, next, pct) ==
    [inv EXCEPT ![i].pc = IF next = "CleaningUp" THEN "Complete" ELSE next,
                ![i].progress = Append(@, pct)]

\* self.backup_progress.emit(label, pct), then on to the next stage
Advance(i, next, pct) ==
    [inv EXCEPT ![i].pc = next, ![i].progress = Append(@, pct)]

\* restore_backup's except clause, lines 311-313: log and re-raise
Raise(i, stage) == [inv EXCEPT ![i].pc = "Failed", ![i].failedAt = stage]

GoodDb == MkDb(<<1>>)
CorruptDb == <<SqliteMagic, 2, 1>>
InitialDb == MkDb(<<0>>)

\* the files restore_backup may be pointed at
RestoreInputs ==
    {Ok(BackupTransform(TarAdd(DbMemberName, db), c, e, k, 0).data) :
        db \in {GoodDb, CorruptDb}, c \in BOOLEAN, e \in BOOLEAN,
        k \in {KeyA, KeyB}}
    \cup {NoData, Ok(<<>>), Ok(<<7>>), Ok(TarAdd(OtherMemberName, GoodDb)),
          Ok(SubSeq(TarAdd(DbMemberName, GoodDb), 1, 3))}

OpsInit ==
    /\ encryption_key \in {KeyA, DefaultKey}
    /\ dmKind \in {"sync", "async"}
    /\ dmOpen = TRUE
    /\ live = InitialDb
    /\ snapshot = NoData
    /\ restoreDir = FALSE
    /\ tempTar = NoData
    /\ candidate = NoData
    /\ stray = NoData
    /\ records = {}
    /\ inv = [i \in Invocations |-> InvIdle]
    /\ running = 0
    /\ calls = 0
    /\ processed = {}
    /\ process = "running"

OpsIdle ==
    /\ encryption_key = DefaultKey
    /\ dmKind = "sync"
    /\ dmOpen = TRUE
    /\ live = InitialDb
    /\ snapshot = NoData
    /\ restoreDir = FALSE
    /\ tempTar = NoData
    /\ candidate = NoData
    /\ stray = NoData
    /\ records = {}
    /\ inv = [i \in Invocations |-> InvIdle]
    /\ running = 0
    /\ slots = {}
    /\ calls = 0
    /\ processed = {}
    /\ process = "running"

managerVars == <<encryption_key, dmKind, slots, process>>
dirVars == <<rPresent, rMtime, rData, rUnlinkCalls, rErrLog>>

(***************************************************************************)
(* restore_backup, lines 268-313.                                          *)
(***************************************************************************)
\* lines 275-280: the call, "Starting restore..." and "Verifying backup..."
RestoreBackup(i) ==
    /\ Runs(i, "Idle")
    /\ running = 0
    /\ calls < MaxCalls
    /\ \E file \in RestoreInputs :
          inv' = [inv EXCEPT ![i] =
                    [InvIdle EXCEPT !.pc = "Verifying", !.op = "restore",
                                    !.arg = file, !.liveAtCall = live,
                                    !.openAtCall = dmOpen,
                                    !.progress = <<0, 10>>]]
    /\ running' = i
    /\ calls' = calls + 1
    /\ UNCHANGED <<managerVars, dmOpen, fileVars, records, processed, dirVars>>

\* line 281: _verify_backup_file
RestoreVerifyBackupFile(i) ==
    /\ Runs(i, "Verifying")
    /\ IF VerifyBackupFile(inv[i].arg)
       THEN inv' = Advance(i, "PreparingWorkspace", 20) /\ running' = i
       ELSE inv' = Raise(i, "Verifying") /\ running' = 0
    /\ UNCHANGED <<managerVars, dmOpen, fileVars, records, calls, processed,
                   dirVars>>

\* lines 285-286: os.makedirs(restore_dir, exist_ok=True)
RestorePrepareWorkspace(i) ==
    /\ Runs(i, "PreparingWorkspace")
    /\ \E fault \in BOOLEAN :
          IF fault
          THEN inv' = Raise(i, "PreparingWorkspace") /\ running' = 0
               /\ UNCHANGED restoreDir
          ELSE inv' = Advance(i, "Transforming", 40) /\ running' = i
               /\ restoreDir' = TRUE
    /\ UNCHANGED <<managerVars, dmOpen, live, snapshot, tempTar, candidate,
                   stray, records, calls, processed, dirVars>>

\* line 290: _process_restore, lines 324-360
RestoreProcess(i) ==
    /\ Runs(i, "Transforming")
    /\ \E fault \in {"none", "read", "write", "extract", "unlink"} :
          LET data == RestoreTransform(inv[i].arg.data, encryption_key)
              isDb == TarMemberName(data) = DbMemberName
              failed == /\ inv' = Raise(i, "Transforming")
                        /\ running' = 0
          IN  IF fault = "read" \/ ~restoreDir
              THEN failed /\ UNCHANGED <<tempTar, candidate, stray, live>>
              ELSE IF fault = "write"
              THEN /\ failed
                   /\ \E part \in PartialWrites(data) : tempTar' = Ok(part)
                   /\ UNCHANGED <<candidate, stray, live>>
              ELSE IF ~TarIsReadable(data)
              THEN /\ failed
                   /\ tempTar' = Ok(data)
                   /\ UNCHANGED <<candidate, stray, live>>
              ELSE IF fault = "extract"
              THEN /\ failed
                   /\ tempTar' = Ok(data)
                   /\ \E part \in PartialWrites(TarMemberData(data)) :
                         /\ candidate' = IF isDb THEN Ok(part) ELSE candidate
                         /\ stray' = IF isDb THEN stray ELSE Ok(part)
                   /\ live' = LiveAfterExtract(live, TarMemberData(data))
              ELSE /\ candidate' = IF isDb THEN Ok(TarMemberData(data))
                                   ELSE candidate
                   /\ stray' = IF isDb THEN stray ELSE Ok(TarMemberData(data))
                   /\ live' = LiveAfterExtract(live, TarMemberData(data))
                   /\ IF fault = "unlink"
                      THEN failed /\ tempTar' = Ok(data)
                      ELSE /\ tempTar' = NoData
                           /\ inv' = Advance(i, "IntegrityChecking", 70)
                           /\ running' = i
    /\ UNCHANGED <<managerVars, dmOpen, snapshot, restoreDir, records, calls,
                   processed, dirVars>>

\* line 294: _verify_database_file, lines 362-378.  sqlite3.connect creates
\* the file when the archive held no member of that name.
RestoreVerifyDatabase(i) ==
    /\ Runs(i, "IntegrityChecking")
    /\ IF ~restoreDir
       THEN /\ inv' = Raise(i, "IntegrityChecking")
            /\ running' = 0
            /\ UNCHANGED candidate
       ELSE LET file == IF candidate.ok THEN candidate ELSE Ok(<<>>)
            IN  /\ candidate' = file
                /\ IF VerifyDatabaseFile(file.data)
                   THEN /\ inv' = [Advance(i, "Replacing", 90) EXCEPT
                                     ![i].checked = IntegrityCheck(file.data)]
                        /\ running' = i
                   ELSE /\ inv' = [Raise(i, "IntegrityChecking") EXCEPT
                                     ![i].checked = IntegrityCheck(file.data)]
                        /\ running' = 0
    /\ UNCHANGED <<managerVars, dmOpen, live, snapshot, restoreDir, tempTar,
                   stray, records, calls, processed, dirVars>>

(***************************************************************************)
(* _replace_database, lines 380-412.                                       *)
(***************************************************************************)
\* line 384: await self.database_manager.close().  DatabaseManager.close is a
\* plain function: it closes the connection and returns None, and awaiting
\* None raises TypeError.  A coroutine close suspends the invocation.
ReplaceClose(i) ==
    /\ Runs(i, "Replacing")
    /\ IF dmKind = "sync"
       THEN /\ dmOpen' = FALSE
            /\ inv' = Raise(i, "Replacing")
            /\ running' = 0
       ELSE \E fault \in BOOLEAN :
               IF fault
               THEN /\ inv' = Raise(i, "Replacing")
                    /\ running' = 0
                    /\ UNCHANGED dmOpen
               ELSE /\ dmOpen' = FALSE
                    /\ inv' = [inv EXCEPT ![i].pc = "ReplSnapshot"]
                    /\ running' = 0
    /\ UNCHANGED <<managerVars, fileVars, records, calls, processed, dirVars>>

\* lines 387-389: shutil.copy2(db_path, db_path + '.pre-restore')
ReplaceSnapshot(i) ==
    /\ Runs(i, "ReplSnapshot")
    /\ \E fault \in BOOLEAN :
          IF fault
          THEN /\ \E part \in PartialWrites(live) : snapshot' = Ok(part)
               /\ inv' = Raise(i, "Replacing")
               /\ running' = 0
          ELSE /\ snapshot' = Ok(live)
               /\ inv' = [inv EXCEPT ![i].pc = "ReplCopy"]
               /\ running' = i
    /\ UNCHANGED <<managerVars, dmOpen, live, restoreDir, tempTar, candidate,
                   stray, records, calls, processed, dirVars>>

\* line 393: shutil.copy2(new_db_path, db_path)
ReplaceCopy(i) ==
    /\ Runs(i, "ReplCopy")
    /\ \E fault \in BOOLEAN :
          IF ~candidate.ok
          THEN /\ inv' = [inv EXCEPT ![i].pc = "ReplRollback",
                                         ![i].rollback = "pending"]
               /\ UNCHANGED live
          ELSE IF fault
          THEN /\ \E part \in PartialWrites(candidate.data) : live' = part
               /\ inv' = [inv EXCEPT ![i].pc = "ReplRollback",
                                         ![i].rollback = "pending"]
          ELSE /\ live' = candidate.data
               /\ inv' = [inv EXCEPT ![i].pc = "ReplInit"]
    /\ running' = i
    /\ UNCHANGED <<managerVars, dmOpen, snapshot, restoreDir, tempTar,
                   candidate, stray, records, calls, processed, dirVars>>

\* line 396: await self.database_manager.initialize(), which opens the file
\* at db_path and runs its own integrity check
ReplaceInitialize(i) ==
    /\ Runs(i, "ReplInit")
    /\ \E fault \in BOOLEAN :
          IF fault \/ IntegrityCheck(live) # "ok"
          THEN /\ inv' = [inv EXCEPT ![i].pc = "ReplRollback",
                                         ![i].rollback = "pending"]
               /\ UNCHANGED dmOpen
          ELSE /\ dmOpen' = TRUE
               /\ inv' = [inv EXCEPT ![i].pc = "ReplFinally"]
    /\ running' = 0
    /\ UNCHANGED <<managerVars, fileVars, records, calls, processed, dirVars>>

\* lines 397-400 and, when the copy raises, 403-412: copy the snapshot back;
\* a failure here leaves through the finally clause, which deletes the
\* snapshot
ReplaceRollback(i) ==
    /\ Runs(i, "ReplRollback")
    /\ \E fault \in BOOLEAN, unlinkFault \in BOOLEAN :
          LET source == RollbackSource(snapshot, candidate)
          IN  IF fault \/ ~source.ok
              THEN /\ IF source.ok
                      THEN \E part \in PartialWrites(source.data) : live' = part
                      ELSE UNCHANGED live
                   /\ snapshot' = IF unlinkFault THEN snapshot ELSE NoData
                   /\ inv' = [Raise(i, "Replacing") EXCEPT
                                ![i].rollback = "failed"]
                   /\ running' = 0
              ELSE /\ ~unlinkFault
                   /\ live' = source.data
                   /\ inv' = [inv EXCEPT ![i].pc = "ReplRollbackInit",
                                         ![i].rollback = "copied"]
                   /\ running' = i
                   /\ UNCHANGED snapshot
    /\ UNCHANGED <<managerVars, dmOpen, restoreDir, tempTar, candidate, stray,
                   records, calls, processed, dirVars>>

ReRaiseMissing(i) == [Advance(i, "CleaningUp", 95) EXCEPT ![i].reinit = TRUE]

\* line 402: raise, after the initialize of line 401 was attempted
ReRaise(i) == [Raise(i, "Replacing") EXCEPT ![i].reinit = TRUE]

\* lines 401-412: initialize again, re-raise, delete the snapshot on the way
\* out, and raise ValueError to restore_backup
ReplaceRollbackInitialize(i) ==
    /\ Runs(i, "ReplRollbackInit")
    /\ \E fault \in BOOLEAN, unlinkFault \in BOOLEAN :
          /\ dmOpen' = IF fault \/ IntegrityCheck(live) # "ok" THEN dmOpen
                       ELSE TRUE
          /\ snapshot' = IF unlinkFault THEN snapshot ELSE NoData
    /\ inv' = ReRaise(i)
    /\ running' = 0
    /\ UNCHANGED <<managerVars, live, restoreDir, tempTar, candidate, stray,
                   records, calls, processed, dirVars>>

AfterUnlinkKept(file, fault) == file

\* lines 405-408: os.unlink(backup_current_path), errors ignored
AfterUnlink(file, fault) == IF fault THEN file ELSE NoData

\* lines 403-408 on the way out of a replacement that worked, then line 301
ReplaceFinally(i) ==
    /\ Runs(i, "ReplFinally")
    /\ \E unlinkFault \in BOOLEAN :
          /\ snapshot' = AfterUnlink(snapshot, unlinkFault)
          /\ inv' = [Advance(i, "CleaningUp", 95) EXCEPT ![i].swallowed =
                       IF unlinkFault THEN @ \cup {"snapshot"} ELSE @]
    /\ running' = i
    /\ UNCHANGED <<managerVars, dmOpen, live, restoreDir, tempTar, candidate,
                   stray, records, calls, processed, dirVars>>

\* lines 300-309: shutil.rmtree(restore_dir), errors ignored
RestoreCleanUp(i) ==
    /\ Runs(i, "CleaningUp")
    /\ \E fault \in BOOLEAN :
          /\ IF fault
             THEN UNCHANGED <<restoreDir, tempTar, candidate, stray>>
             ELSE /\ restoreDir' = FALSE
                  /\ tempTar' = NoData
                  /\ candidate' = NoData
                  /\ stray' = NoData
          /\ inv' = [Advance(i, "Complete", 100) EXCEPT ![i].swallowed =
                       IF fault THEN @ \cup {"workspace"} ELSE @]
    /\ running' = 0
    /\ UNCHANGED <<managerVars, dmOpen, live, snapshot, records, calls,
                   processed, dirVars>>

\* the caller has its result (or its exception) and may call again
Return(i) ==
    /\ i \in slots
    /\ inv[i].pc \in Terminated
    /\ running = 0
    /\ calls < MaxCalls
    /\ inv' = [inv EXCEPT ![i] = InvIdle]
    /\ UNCHANGED <<managerVars, dmOpen, fileVars, records, running, calls,
                   processed, dirVars>>

(***************************************************************************)
(* create_backup, lines 74-150, and the operations it is built from.       *)
(***************************************************************************)
TmpOf(name) == <<name[1], "marka.tmp">>

\* _create_temp_backup, lines 152-159: a tar archive holding the live file
CreateTempBackup(dbData) == TarAdd(DbMemberName, dbData)

\* _apply_retention_policy run in one piece at the end of create_backup
RetentionOutcome(present, mtime, listing) ==
    LET files == SortNewestFirst(SelectSeq(listing, EndsWithMarka), mtime)
        byCount == BeyondMaxBackups(files, rMaxBackups)
        afterCount == UnlinkAll(byCount, present, rLocked)
        byAge == ExpiredEntries(files, mtime, rRetentionDays)
    IN  [present |-> UnlinkAll(byAge, afterCount, rLocked),
         errors |-> {<<"count", n>> : n \in UnlinkErrors(byCount, present, rLocked)}
                    \cup {<<"age", n>> : n \in UnlinkErrors(byAge, afterCount, rLocked)},
         calls |-> [n \in DirNames |-> CountCalls(byCount, n) + CountCalls(byAge, n)]]

\* the percentages emitted before the given stage of create_backup raised
CreateProgress(stage) ==
    IF stage = "Archiving" THEN <<0, 10>>
    ELSE IF stage = "Transforming" THEN <<0, 10, 30>>
    ELSE IF stage = "CloudUploading" THEN <<0, 10, 30, 70, 80>>
    ELSE IF stage = "RecordingMetadata" THEN <<0, 10, 30, 70, 80, 90>>
    ELSE IF stage = "ApplyingRetention" THEN <<0, 10, 30, 70, 80, 90, 95>>
    ELSE <<0, 10, 30, 70, 80, 90, 95, 100>>

CreateFaults == {"none", "archive", "process", "upload", "record", "retention"}

\* lines 100-150: the try block and its except clause, for the artifact name,
\* the options, the step that meets a fault and the token's iv
CreateBackupTry(i, name, compress, encrypt, fault, iv) ==
    LET out == BackupTransform(CreateTempBackup(live), compress, encrypt,
                               encryption_key, iv)
        stage == IF fault = "archive" THEN "Archiving"
                 ELSE IF ~out.ok \/ fault = "process" THEN "Transforming"
                 ELSE IF fault = "upload" THEN "CloudUploading"
                 ELSE IF dmKind = "sync" \/ fault = "record"
                      THEN "RecordingMetadata"
                 ELSE IF fault = "retention" THEN "ApplyingRetention"
                 ELSE "none"
        wrote == stage # "Archiving" /\ out.ok
        present1 == (rPresent \ {TmpOf(name)})
                        \cup (IF wrote THEN {name} ELSE {})
        mtime1 == IF wrote THEN [rMtime EXCEPT ![name] = Now] ELSE rMtime
    IN  /\ \E part \in PartialWrites(out.data) :
              rData' = IF ~wrote THEN rData
                       ELSE IF stage = "Transforming"
                            THEN [rData EXCEPT ![name] = part]
                       ELSE [rData EXCEPT ![name] = out.data]
        /\ processed' = IF ~wrote THEN processed
                        ELSE IF stage = "Transforming" THEN processed \ {name}
                        ELSE processed \cup {name}
        /\ rMtime' = mtime1
        /\ records' = IF stage \in {"ApplyingRetention", "none"}
                      THEN records \cup {name} ELSE records
        /\ IF stage = "none"
           THEN \E listing \in Listings({n \in present1 : EndsWithMarka(n)}) :
                   LET ret == RetentionOutcome(present1, mtime1, listing)
                   IN  /\ rPresent' = ret.present
                       /\ rErrLog' = rErrLog \cup ret.errors
                       /\ rUnlinkCalls' =
                             [n \in DirNames |-> rUnlinkCalls[n] + ret.calls[n]]
           ELSE /\ rPresent' = present1
                /\ UNCHANGED <<rErrLog, rUnlinkCalls>>
        /\ inv' = [inv EXCEPT ![i] =
                     [InvIdle EXCEPT
                        !.pc = IF stage = "none" THEN "Complete" ELSE "Failed",
                        !.op = "create", !.liveAtCall = live,
                        !.openAtCall = dmOpen, !.failedAt = stage,
                        !.env = fault, !.name = name[1],
                        !.progress = CreateProgress(stage),
                        !.complete = <<stage = "none">>]]

\* create_backup: the path is built before the try block, so an exception
\* there reaches the caller with no signal emitted and no file touched
CreateBackup(i) ==
    /\ Runs(i, "Idle")
    /\ running = 0
    /\ calls < MaxCalls
    /\ \E n \in 1..MaxArtifacts, compress \in BOOLEAN, encrypt \in BOOLEAN,
          fault \in CreateFaults :
          LET joined == BackupPathJoin("backups", <<n, "marka">>)
          IN  IF ~joined.ok
              THEN /\ inv' = [inv EXCEPT ![i] =
                                [InvIdle EXCEPT !.pc = "Failed", !.op = "create",
                                                !.liveAtCall = live,
                                                !.openAtCall = dmOpen,
                                                !.failedAt = "PathJoin",
                                                !.env = fault, !.name = n]]
                   /\ UNCHANGED <<dirVars, records, processed>>
              ELSE \E iv \in Ivs :
                      CreateBackupTry(i, joined.data, compress, encrypt, fault, iv)
    /\ calls' = calls + 1
    /\ UNCHANGED <<managerVars, dmOpen, fileVars, running>>

\* _create_temp_backup called with <backup 1>.marka.tmp
PipeCreateTempBackup ==
    /\ LET tmp == <<1, "marka.tmp">>
           bundle == CreateTempBackup(live)
       IN  \E fault \in BOOLEAN :
              /\ rPresent' = rPresent \cup {tmp}
              /\ IF fault
                 THEN \E part \in PartialWrites(bundle) :
                         rData' = [rData EXCEPT ![tmp] = part]
                 ELSE rData' = [rData EXCEPT ![tmp] = bundle]
    /\ UNCHANGED <<rMtime, rUnlinkCalls, rErrLog, opVars>>

\* _process_backup(<backup 1>.marka.tmp, <backup 1>.marka, options),
\* lines 161-183: read, compress, encrypt, then open the destination for
\* writing and write
PipeProcessBackup ==
    /\ LET tmp == <<1, "marka.tmp">>
           dest == <<1, "marka">>
       IN  \E compress \in BOOLEAN, encrypt \in BOOLEAN, fault \in BOOLEAN :
              LET out == BackupTransform(rData[tmp], compress, encrypt,
                                         encryption_key, 0)
              IN  IF tmp \notin rPresent \/ ~out.ok
                  THEN UNCHANGED <<rPresent, rData, rMtime, processed>>
                  ELSE /\ rPresent' = rPresent \cup {dest}
                       /\ rMtime' = [rMtime EXCEPT ![dest] = Now]
                       /\ IF fault
                          THEN /\ \E part \in PartialWrites(out.data) :
                                     rData' = [rData EXCEPT ![dest] = part]
                               /\ processed' = processed \ {dest}
                          ELSE /\ rData' = [rData EXCEPT ![dest] = out.data]
                               /\ processed' = processed \cup {dest}
    /\ UNCHANGED <<rUnlinkCalls, rErrLog, managerVars, dmOpen, fileVars,
                   records, inv, running, calls>>

\* line 115: os.unlink(temp_path)
PipeUnlinkTemp ==
    /\ <<1, "marka.tmp">> \in rPresent
    /\ rPresent' = rPresent \ {<<1, "marka.tmp">>}
    /\ rData' = [rData EXCEPT ![<<1, "marka.tmp">>] = <<>>]
    /\ UNCHANGED <<rMtime, rUnlinkCalls, rErrLog, opVars>>

\* DatabaseManager.create_backup(backup_path, type), database_manager.py
\* lines 1291-1325: sqlite3 backup into the file, then the INSERT
DbCreateBackup ==
    /\ dmKind = "sync"
    /\ \E fault \in {"none", "backup", "insert"} :
          LET dest == <<MaxArtifacts, "marka">>
          IN  /\ rPresent' = rPresent \cup {dest}
              /\ rMtime' = [rMtime EXCEPT ![dest] = Now]
              /\ IF fault = "backup"
                 THEN /\ \E part \in PartialWrites(live) :
                            rData' = [rData EXCEPT ![dest] = part]
                      /\ processed' = processed \ {dest}
                      /\ UNCHANGED records
                 ELSE /\ rData' = [rData EXCEPT ![dest] = live]
                      /\ processed' = processed \cup {dest}
                      /\ records' = IF fault = "insert" \/ ~dmOpen THEN records
                                    ELSE records \cup {dest}
    /\ UNCHANGED <<rUnlinkCalls, rErrLog, managerVars, dmOpen, fileVars, inv,
                   running, calls>>

(***************************************************************************)
(* SecurityManager (src/secure/security_manager.py): the failed-login      *)
(* record and the rate limiter of one identifier.  Time is in ticks.       *)
(***************************************************************************)
MaxClock == 5

\* line 32: self.max_login_attempts = 5
MaxLoginAttempts == 5
\* line 33: self.lockout_duration = timedelta(minutes=15)
LockoutDuration == 2

NoAttempts == [present |-> FALSE, count |-> 0, locked |-> FALSE, lockedUntil |-> 0]
NoResult == [made |-> FALSE, allowed |-> TRUE, locked |-> FALSE,
             remaining |-> 0, at |-> 0, failures |-> 0]

LoginIdle ==
    /\ failed_attempts = NoAttempts
    /\ loginResult = NoResult
    /\ failuresSince = 0
    /\ lockDeadline = 0

\* the value check_login_attempts returns, with the time of the call and
\* the failures recorded up to it
LoginAnswer(allowed, remaining) ==
    [made |-> TRUE, allowed |-> allowed, locked |-> ~allowed,
     remaining |-> remaining, at |-> clock, failures |-> failuresSince]

\* check_login_attempts, lines 295-331
CheckLoginAttempts ==
    /\ IF ~failed_attempts.present
       THEN \* lines 299-300
            /\ loginResult' = LoginAnswer(TRUE, MaxLoginAttempts)
            /\ UNCHANGED failed_attempts
       ELSE IF failed_attempts.locked /\ clock < failed_attempts.lockedUntil
       THEN \* lines 303-310
            /\ loginResult' = LoginAnswer(FALSE, 0)
            /\ UNCHANGED failed_attempts
       ELSE IF failed_attempts.locked
       THEN \* lines 313-315: the lockout has run out
            /\ loginResult' = LoginAnswer(TRUE, MaxLoginAttempts)
            /\ failed_attempts' = NoAttempts
       ELSE IF MaxLoginAttempts - failed_attempts.count <= 0
       THEN \* lines 319-329: lock now
            /\ loginResult' = LoginAnswer(FALSE, 0)
            /\ failed_attempts' = [failed_attempts EXCEPT !.locked = TRUE,
                                      !.lockedUntil = clock + LockoutDuration]
       ELSE \* line 331
            /\ loginResult' = LoginAnswer(TRUE, MaxLoginAttempts - failed_attempts.count)
            /\ UNCHANGED failed_attempts
    /\ lockDeadline' = IF loginResult'.locked /\ clock >= lockDeadline
                       THEN clock + LockoutDuration ELSE lockDeadline
    /\ UNCHANGED <<clock, failuresSince, rateVars>>

\* record_failed_login_attempt, lines 333-340
RecordFailedLoginAttempt ==
    /\ failed_attempts.count <= MaxLoginAttempts
    /\ failed_attempts' = [failed_attempts EXCEPT !.present = TRUE,
                                                  !.count = @ + 1]
    /\ failuresSince' = failuresSince + 1
    /\ UNCHANGED <<clock, loginResult, lockDeadline, rateVars>>

\* record_successful_login, lines 342-345
RecordSuccessfulLogin ==
    /\ failed_attempts' = NoAttempts
    /\ failuresSince' = 0
    /\ UNCHANGED <<clock, loginResult, lockDeadline, rateVars>>

\* time passes; a lockout that runs out at the new time has expired
Tick ==
    /\ clock < MaxClock
    /\ clock' = clock + 1
    /\ failuresSince' = IF lockDeadline = clock + 1 THEN 0 ELSE failuresSince
    /\ UNCHANGED <<failed_attempts, loginResult, lockDeadline, rateVars>>

\* the max_requests the caller passes
MaxRequests == 2
\* line 395: window = timedelta(milliseconds=15 * 60 * 1000), the same
\* quarter of an hour as the lockout
CleanupWindow == 2

NoLimiter == [present |-> FALSE, requests |-> <<>>, firstRequest |-> 0]
NoRateResult == [made |-> FALSE, allowed |-> TRUE, remaining |-> 0, at |-> 0]

RateIdle ==
    /\ rate_limiters = NoLimiter
    /\ window_ms = CleanupWindow
    /\ rateResult = NoRateResult
    /\ allowedLog = <<>>

SecIdle == clock = 0 /\ LoginIdle /\ RateIdle

\* lines 360 and 397-400: the requests newer than now - window
Recent(requests, now, window) == SelectSeq(requests, LAMBDA t : t > now - window)

\* check_rate_limit(identifier, MaxRequests, window_ms), lines 348-384
CheckRateLimit ==
    /\ LET limiter == IF rate_limiters.present THEN rate_limiters
                      ELSE [present |-> TRUE, requests |-> <<>>,
                            firstRequest |-> clock]
           kept == Recent(limiter.requests, clock, window_ms)
       IN  IF Len(kept) >= MaxRequests
           THEN \* lines 362-373
                /\ rate_limiters' = [limiter EXCEPT !.requests = kept]
                /\ rateResult' = [made |-> TRUE, allowed |-> FALSE,
                                  remaining |-> 0, at |-> clock]
                /\ UNCHANGED allowedLog
           ELSE \* lines 375-384
                /\ rate_limiters' = [limiter EXCEPT !.requests = Append(kept, clock)]
                /\ rateResult' = [made |-> TRUE, allowed |-> TRUE,
                                  remaining |-> MaxRequests - (Len(kept) + 1),
                                  at |-> clock]
                /\ allowedLog' = Append(allowedLog, clock)
    /\ UNCHANGED <<clock, window_ms, loginVars>>

\* _cleanup_rate_limiters, lines 392-412, run by the QTimer of lines 386-390
CleanupRateLimiters ==
    /\ LET kept == Recent(rate_limiters.requests, clock, CleanupWindow)
       IN  rate_limiters' =
              IF ~rate_limiters.present THEN rate_limiters
              ELSE IF kept = <<>> /\ clock - rate_limiters.firstRequest > CleanupWindow
                   THEN NoLimiter
              ELSE [rate_limiters EXCEPT !.requests = kept]
    /\ UNCHANGED <<clock, window_ms, rateResult, allowedLog, loginVars>>

(***************************************************************************)
(* The life of the process: it may stop at any point, and the next start   *)
(* constructs a BackupManager on the same directory.                       *)
(***************************************************************************)
\* the process ends (exit, kill, power loss): the invocations in flight are
\* gone, the files stay as they are
ProcessStops ==
    /\ process = "running"
    /\ process' = "stopped"
    /\ inv' = [i \in Invocations |-> InvIdle]
    /\ running' = 0
    /\ UNCHANGED <<encryption_key, dmKind, slots, dmOpen, fileVars, records,
                   calls, processed, dirVars>>

\* BackupManager.__init__, lines 24-44: the options, the cloud clients and
\* _ensure_backup_dir (lines 66-72), which is os.makedirs(exist_ok=True)
\* and re-raises when that fails
Construct ==
    /\ process = "stopped"
    /\ \E fault \in BOOLEAN :
          process' = IF fault THEN "stopped" ELSE "running"
    /\ UNCHANGED <<encryption_key, dmKind, slots, dmOpen, fileVars, records,
                   inv, running, calls, processed, dirVars>>

(***************************************************************************)
(* Specifications.                                                         *)
(***************************************************************************)
retCfgVars == <<rLocked, rMaxBackups, rRetentionDays, rFiles, rpc, rInitial>>

InitTransform == XformInit /\ RetIdle /\ OpsIdle /\ ListIdle /\ SecIdle
NextTransform ==
    \/ XformProcessBackup /\ UNCHANGED <<retVars, opVars, listVars, secVars>>
    \/ XformProcessRestore /\ UNCHANGED <<retVars, opVars, listVars, secVars>>
SpecTransform == InitTransform /\ [][NextTransform]_vars

InitRetention == RetInit /\ XformIdle /\ OpsIdle /\ ListIdle /\ SecIdle
NextRetention ==
    \/ RetentionList /\ UNCHANGED <<xformVars, opVars, listVars, secVars>>
    \/ RetentionCountPass /\ UNCHANGED <<xformVars, opVars, listVars, secVars>>
    \/ RetentionAgePass /\ UNCHANGED <<xformVars, opVars, listVars, secVars>>
SpecRetention == InitRetention /\ [][NextRetention]_vars

\* an empty backup directory under the manager's retention options
DirInit ==
    /\ rPresent = {}
    /\ rMtime = [n \in DirNames |-> 0]
    /\ rData = [n \in DirNames |-> <<>>]
    /\ rLocked = {}
    /\ rMaxBackups = MaxArtifacts - 1
    /\ rRetentionDays = 1
    /\ rFiles = <<>>
    /\ rpc = "off"
    /\ rUnlinkCalls = [n \in DirNames |-> 0]
    /\ rErrLog = {}
    /\ rInitial = {}

\* one caller awaiting each call before making the next
Init == OpsInit /\ slots = {1} /\ DirInit /\ XformIdle /\ ListIdle /\ SecIdle
Next ==
    \/ \E i \in Invocations : RestoreBackup(i) /\ UNCHANGED <<xformVars, retCfgVars, listVars, secVars>>
    \/ \E i \in Invocations : RestoreVerifyBackupFile(i) /\ UNCHANGED <<xformVars, retCfgVars, listVars, secVars>>
    \/ \E i \in Invocations : RestorePrepareWorkspace(i) /\ UNCHANGED <<xformVars, retCfgVars, listVars, secVars>>
    \/ \E i \in Invocations : RestoreProcess(i) /\ UNCHANGED <<xformVars, retCfgVars, listVars, secVars>>
    \/ \E i \in Invocations : RestoreVerifyDatabase(i) /\ UNCHANGED <<xformVars, retCfgVars, listVars, secVars>>
    \/ \E i \in Invocations : ReplaceClose(i) /\ UNCHANGED <<xformVars, retCfgVars, listVars, secVars>>
    \/ \E i \in Invocations : ReplaceSnapshot(i) /\ UNCHANGED <<xformVars, retCfgVars, listVars, secVars>>
    \/ \E i \in Invocations : ReplaceCopy(i) /\ UNCHANGED <<xformVars, retCfgVars, listVars, secVars>>
    \/ \E i \in Invocations : ReplaceInitialize(i) /\ UNCHANGED <<xformVars, retCfgVars, listVars, secVars>>
    \/ \E i \in Invocations : ReplaceRollback(i) /\ UNCHANGED <<xformVars, retCfgVars, listVars, secVars>>
    \/ \E i \in Invocations : ReplaceRollbackInitialize(i) /\ UNCHANGED <<xformVars, retCfgVars, listVars, secVars>>
    \/ \E i \in Invocations : ReplaceFinally(i) /\ UNCHANGED <<xformVars, retCfgVars, listVars, secVars>>
    \/ \E i \in Invocations : RestoreCleanUp(i) /\ UNCHANGED <<xformVars, retCfgVars, listVars, secVars>>
    \/ \E i \in Invocations : CreateBackup(i) /\ UNCHANGED <<xformVars, retCfgVars, listVars, secVars>>
    \/ \E i \in Invocations : Return(i) /\ UNCHANGED <<xformVars, retCfgVars, listVars, secVars>>
Spec == Init /\ [][Next]_vars

\* two tasks of one event loop calling the same manager
InitConc == OpsInit /\ slots = Invocations /\ DirInit /\ XformIdle /\ ListIdle /\ SecIdle
SpecConc == InitConc /\ [][Next]_vars

\* the steps of the backup pipeline called one by one
NextPipeline ==
    \/ PipeCreateTempBackup /\ UNCHANGED <<xformVars, retCfgVars, listVars, secVars>>
    \/ PipeProcessBackup /\ UNCHANGED <<xformVars, retCfgVars, listVars, secVars>>
    \/ PipeUnlinkTemp /\ UNCHANGED <<xformVars, retCfgVars, listVars, secVars>>
    \/ DbCreateBackup /\ UNCHANGED <<xformVars, retCfgVars, listVars, secVars>>
    \/ \E i \in Invocations : CreateBackup(i) /\ UNCHANGED <<xformVars, retCfgVars, listVars, secVars>>
    \/ \E i \in Invocations : Return(i) /\ UNCHANGED <<xformVars, retCfgVars, listVars, secVars>>
SpecPipeline == Init /\ [][NextPipeline]_vars

\* list_backups called on a directory nobody else touches
InitList ==
    SharedDirInit /\ lpc = "idle" /\ rpc = "off" /\ XformIdle /\ OpsIdle /\ SecIdle
NextList ==
    \/ ListBackupsListdir /\ UNCHANGED <<xformVars, opVars, secVars>>
    \/ ListBackupsStat /\ UNCHANGED <<xformVars, opVars, secVars>>
\* the helpers of create_backup in a process that may stop and start again
NextStartup ==
    \/ process = "running" /\ PipeCreateTempBackup
          /\ UNCHANGED <<xformVars, retCfgVars, listVars, secVars>>
    \/ process = "running" /\ PipeProcessBackup
          /\ UNCHANGED <<xformVars, retCfgVars, listVars, secVars>>
    \/ process = "running" /\ PipeUnlinkTemp
          /\ UNCHANGED <<xformVars, retCfgVars, listVars, secVars>>
    \/ ProcessStops /\ UNCHANGED <<xformVars, retCfgVars, listVars, secVars>>
    \/ Construct /\ UNCHANGED <<xformVars, retCfgVars, listVars, secVars>>
SpecStartup == Init /\ [][NextStartup]_vars

SpecList == InitList /\ [][NextList]_vars

\* any sequence of the three login calls for one identifier, as time passes
InitLogin ==
    /\ clock = 0
    /\ LoginIdle
    /\ RateIdle
    /\ XformIdle /\ RetIdle /\ OpsIdle /\ ListIdle
NextLogin ==
    \/ CheckLoginAttempts /\ UNCHANGED <<xformVars, retVars, opVars, listVars>>
    \/ RecordFailedLoginAttempt /\ UNCHANGED <<xformVars, retVars, opVars, listVars>>
    \/ RecordSuccessfulLogin /\ UNCHANGED <<xformVars, retVars, opVars, listVars>>
    \/ Tick /\ UNCHANGED <<xformVars, retVars, opVars, listVars>>
SpecLogin == InitLogin /\ [][NextLogin]_vars

\* any sequence of check_rate_limit calls for one identifier with one
\* max_requests and one window_ms, the cleanup timer firing in between
InitRate ==
    /\ clock = 0
    /\ LoginIdle
    /\ rate_limiters = NoLimiter
    /\ window_ms \in {CleanupWindow, CleanupWindow + 1}
    /\ rateResult = NoRateResult
    /\ allowedLog = <<>>
    /\ XformIdle /\ RetIdle /\ OpsIdle /\ ListIdle
NextRate ==
    \/ CheckRateLimit /\ UNCHANGED <<xformVars, retVars, opVars, listVars>>
    \/ CleanupRateLimiters /\ UNCHANGED <<xformVars, retVars, opVars, listVars>>
    \/ Tick /\ UNCHANGED <<xformVars, retVars, opVars, listVars>>
SpecRate == InitRate /\ [][NextRate]_vars

\* one operation, list_backups or _apply_retention_policy, on a directory
\* from which another actor removes artifacts meanwhile
InitShared ==
    /\ SharedDirInit
    /\ \/ lpc = "idle" /\ rpc = "off"
       \/ lpc = "off" /\ rpc = "idle"
    /\ XformIdle
    /\ OpsIdle
    /\ SecIdle
NextShared ==
    \/ ListBackupsListdir /\ UNCHANGED <<xformVars, opVars, secVars>>
    \/ ListBackupsStat /\ UNCHANGED <<xformVars, opVars, secVars>>
    \/ RetentionListdir /\ UNCHANGED <<xformVars, opVars, secVars>>
    \/ RetentionStat /\ UNCHANGED <<xformVars, opVars, secVars>>
    \/ RetentionCountPass /\ UNCHANGED <<xformVars, opVars, listVars, secVars>>
    \/ RetentionAgePass /\ UNCHANGED <<xformVars, opVars, listVars, secVars>>
    \/ OtherActorRemoves /\ UNCHANGED <<xformVars, opVars, secVars>>
SpecShared == InitShared /\ [][NextShared]_vars

(***************************************************************************)
(* Properties of restore_backup and create_backup.                         *)
(***************************************************************************)
FailedRestoreAt(i, stages) ==
    /\ i \in slots
    /\ inv[i].pc = "Failed"
    /\ inv[i].op = "restore"
    /\ inv[i].failedAt \in stages

\* C1: when restore_backup ends with an error raised in the Replacing stage
\* (close, snapshot, copy over the live path, initialize), and the copy back
\* from the snapshot did not itself fail, the live database file is the file
\* it was when restore_backup was called.
C1_ReplacingFailureKeepsLive ==
    \A i \in Invocations :
        (FailedRestoreAt(i, {"Replacing"}) /\ inv[i].rollback # "failed")
            => live = inv[i].liveAtCall

\* the live file was overwritten by the candidate and then copied back
C1_Witness ==
    \E i \in Invocations :
        /\ FailedRestoreAt(i, {"Replacing"})
        /\ inv[i].rollback = "copied"
        /\ candidate.ok
        /\ candidate.data # inv[i].liveAtCall
        /\ live = inv[i].liveAtCall

\* C2: an invocation is in the Replacing stage only after
\* _verify_database_file returned normally for the extracted candidate, that
\* is only with a candidate that opens and whose integrity check says 'ok'.
C2_ReplacingOnlyAfterVerified ==
    \A i \in Invocations :
        (i \in slots /\ inv[i].pc \in ReplacingPcs)
            => /\ inv[i].checked = "ok"
               /\ candidate.ok
               /\ IntegrityCheck(candidate.data) = "ok"

C2_Witness ==
    \E i \in Invocations :
        /\ i \in slots
        /\ inv[i].pc = "Replacing"
        /\ candidate = Ok(GoodDb)

\* C3: while restore_backup is in a stage before Replacing, and after it has
\* failed in one, the live database file and the state of the database
\* connection are what they were when it was called.
C3_BeforeReplacingLiveUntouched ==
    \A i \in Invocations :
        (i \in slots /\ (inv[i].pc \in BeforeReplacing
                            \/ FailedRestoreAt(i, BeforeReplacing)))
            => /\ live = inv[i].liveAtCall
               /\ dmOpen = inv[i].openAtCall

\* a candidate was extracted and then refused by the integrity check
C3_Witness ==
    \E i \in Invocations :
        /\ FailedRestoreAt(i, {"IntegrityChecking"})
        /\ candidate = Ok(CorruptDb)
        /\ live = inv[i].liveAtCall

\* C4: two invocations on the same manager are never in progress at once.
C4_NeverInterleaved ==
    Cardinality({i \in slots : InProgress(i)}) <= 1

\* C5: a file is at the final path of the pipeline's artifact only when
\* _process_backup has completed for it.
C5_FinalPathOnlyWhenProcessed ==
    <<1, "marka">> \in rPresent => <<1, "marka">> \in processed

\* C6: once create_backup or restore_backup has ended with an error, neither
\* an '<artifact>.tmp' bundle nor restore/temp.tar nor an extracted file is
\* left under the backup directory.
C6_NoTempAfterFailure ==
    (\E i \in slots : inv[i].pc = "Failed")
        => /\ ~tempTar.ok
           /\ ~candidate.ok
           /\ ~stray.ok
           /\ rPresent \cap TmpNames = {}

C11_BackupThenRestoreGivesBack ==
    \A i \in Invocations :
        /\ (/\ i \in slots
            /\ inv[i].op = "create"
            /\ inv[i].pc \in Terminated
            /\ inv[i].env = "none"
            /\ FernetKeyValid(encryption_key)
            /\ dmKind = "async")
           => /\ inv[i].pc = "Complete"
              /\ <<inv[i].name, "marka">> \in rPresent
              /\ RestoreTransform(rData[<<inv[i].name, "marka">>], encryption_key)
                    = CreateTempBackup(inv[i].liveAtCall)
        /\ (/\ i \in slots
            /\ inv[i].op = "restore"
            /\ inv[i].pc = "Complete"
            /\ TarIsReadable(RestoreTransform(inv[i].arg.data, encryption_key))
            /\ TarMemberName(RestoreTransform(inv[i].arg.data, encryption_key))
                  = DbMemberName)
           => live = TarMemberData(RestoreTransform(inv[i].arg.data,
                                                    encryption_key))

\* files that are not the backup transform's output for a bundle holding
\* the database: empty, a stray byte, a cut archive, an archive of another file
GarbageInputs ==
    {Ok(<<>>), Ok(<<7>>), Ok(SubSeq(TarAdd(DbMemberName, GoodDb), 1, 3)),
     Ok(TarAdd(OtherMemberName, GoodDb))}

\* C12: restore_backup of an empty, truncated or garbage artifact never
\* reaches the Replacing stage: it fails in Verifying, Transforming or
\* IntegrityChecking, and the live database file stays as it was.
C12_GarbageArtifactRejected ==
    \A i \in Invocations :
        (i \in slots /\ inv[i].op = "restore" /\ inv[i].arg \in GarbageInputs)
            => /\ inv[i].pc \in BeforeReplacing \cup {"Failed"}
               /\ inv[i].pc = "Failed" => inv[i].failedAt \in BeforeReplacing
               /\ live = inv[i].liveAtCall

\* C13: a create_backup invocation that has terminated has emitted the
\* completion event exactly once, with success=true exactly when it returned
\* the artifact path.
C13_CompletionEmittedOnce ==
    \A i \in Invocations :
        (i \in slots /\ inv[i].op = "create" /\ inv[i].pc \in Terminated)
            => inv[i].complete = <<inv[i].pc = "Complete">>

\* C14: a restore_backup that failed in the Replacing stage has emitted the
\* completion signal with success=false.
C14_ReplacingFailureSignalled ==
    \A i \in Invocations :
        FailedRestoreAt(i, {"Replacing"})
            => \E k \in DOMAIN inv[i].complete : inv[i].complete[k] = FALSE

\* C15: once the copy over the live path or the initialize after it has
\* failed, the snapshot is copied back over the live path and the database
\* is initialized again before the error reaches the caller, and the
\* invocation never goes on to clean up and report 'Restore complete'.
\* (The copy back itself failing is a further fault, not covered here.)
C15_FailedReplacementRolledBack ==
    \A i \in Invocations :
        (i \in slots /\ inv[i].rollback # "none")
            => /\ inv[i].pc \in {"ReplRollback", "ReplRollbackInit", "Failed"}
               /\ 100 \notin SeqRange(inv[i].progress)
               /\ inv[i].pc = "ReplRollbackInit"
                     => snapshot.ok /\ live = snapshot.data
               /\ (inv[i].pc = "Failed" /\ inv[i].rollback # "failed")
                     => /\ inv[i].rollback = "copied"
                        /\ inv[i].reinit
                        /\ inv[i].failedAt = "Replacing"
                        /\ live = inv[i].liveAtCall

\* the candidate was copied over the live path, initialize failed, and the
\* error was raised after the copy back and the second initialize
C15_Witness ==
    \E i \in Invocations :
        /\ FailedRestoreAt(i, {"Replacing"})
        /\ inv[i].rollback = "copied"
        /\ inv[i].reinit
        /\ candidate = Ok(GoodDb)
        /\ live = InitialDb
        /\ 90 \in SeqRange(inv[i].progress)

\* C16: while restore_backup has not confirmed the replacement (candidate
\* copied and database initialized), whenever the live path holds anything
\* but the original content the .pre-restore snapshot exists and holds the
\* original content; this includes the state after a failed rollback.
C16_SnapshotHeldUntilConfirmed ==
    \A i \in Invocations :
        (/\ i \in slots
         /\ inv[i].op = "restore"
         /\ inv[i].pc \notin {"Idle", "ReplFinally", "CleaningUp", "Complete"}
         /\ live # inv[i].liveAtCall)
            => snapshot = Ok(inv[i].liveAtCall)

CreateOf(i) == i \in slots /\ inv[i].op = "create" /\ inv[i].pc \in Terminated

\* C19: a create_backup call whose cloud upload fails ends in failure at the
\* upload step, having emitted the completion event with success=false,
\* with the artifact written at its final path and neither the record nor
\* the retention step run.
C19_UploadFailureFailsBackup ==
    \A i \in Invocations :
        (CreateOf(i) /\ inv[i].env = "upload" /\ FernetKeyValid(encryption_key))
            => /\ inv[i].pc = "Failed"
               /\ inv[i].failedAt = "CloudUploading"
               /\ inv[i].complete = <<FALSE>>
               /\ <<inv[i].name, "marka">> \in rPresent \cap processed
               /\ 90 \notin SeqRange(inv[i].progress)

\* the stages of create_backup by the percentage each announces
StageOrder ==
    <<"Archiving", "Transforming", "CloudUploading", "RecordingMetadata",
      "ApplyingRetention", "Complete">>
StagePercent == <<10, 30, 80, 90, 95, 100>>

StagesEntered(progress) ==
    SelectSeq(progress, LAMBDA p : p \in SeqRange(StagePercent))

\* C20: an execution of create_backup leaves Idle into Archiving and enters
\* the stages in the order Archiving, Transforming, CloudUploading,
\* RecordingMetadata, ApplyingRetention, Complete, each once; it ends
\* Complete after all of them or Failed out of the last stage it entered.
C20_StagesInOrder ==
    \A i \in Invocations :
        CreateOf(i)
            => \E k \in DOMAIN StageOrder :
                  /\ StagesEntered(inv[i].progress) = SubSeq(StagePercent, 1, k)
                  /\ inv[i].pc = "Complete" <=> k = Len(StageOrder)
                  /\ inv[i].pc = "Failed" => inv[i].failedAt = StageOrder[k]

(***************************************************************************)
(* Properties of the retention policy.                                     *)
(***************************************************************************)
RemainingArtifacts == {n \in rPresent : EndsWithMarka(n)}

\* the artifacts whose os.unlink was refused although the file was there
RefusedDeletes == {e[2] : e \in rErrLog} \cap rLocked

\* S holds k artifacts of the initial directory, none older than one left out
IsNewest(S, k) ==
    /\ S \subseteq rInitial
    /\ Cardinality(S) = k
    /\ \A a \in S, b \in rInitial \ S : rMtime[a] >= rMtime[b]

\* C8 as stated: with N artifacts and max_backups = k < N, after the run
\* (no deletion refused) exactly k artifacts remain, the k most recent ones.
C8_ExactlyKRemain ==
    (rpc = "done" /\ Cardinality(rInitial) > rMaxBackups /\ RefusedDeletes = {})
        => IsNewest(RemainingArtifacts, rMaxBackups)

\* C8 amended: with N artifacts and max_backups = k < N, after a run in which
\* no deletion is refused, the artifacts that remain are exactly those of the
\* k most recently modified that are not older than now - retention_days.
C8_NewestKNotExpiredRemain ==
    (rpc = "done" /\ Cardinality(rInitial) > rMaxBackups /\ RefusedDeletes = {})
        => \E S \in SUBSET rInitial :
              /\ IsNewest(S, rMaxBackups)
              /\ RemainingArtifacts =
                    {a \in S : rMtime[a] >= Now - rRetentionDays}

C8_Witness ==
    /\ rpc = "done"
    /\ Cardinality(rInitial) > rMaxBackups
    /\ rMaxBackups >= 1
    /\ RefusedDeletes = {}
    /\ Cardinality(RemainingArtifacts) = rMaxBackups
    /\ \E n \in rInitial : n \notin rPresent /\ rMtime[n] >= Now - rRetentionDays

\* C9: after the run (no deletion refused) no artifact older than
\* now - retention_days remains, whatever max_backups and the number of
\* artifacts are.
C9_NoExpiredArtifactRemains ==
    (rpc = "done" /\ RefusedDeletes = {})
        => \A n \in RemainingArtifacts : rMtime[n] >= Now - rRetentionDays

C9_Witness ==
    /\ rpc = "done"
    /\ Cardinality(rInitial) <= rMaxBackups
    /\ \E n \in rInitial : rMtime[n] < Now - rRetentionDays /\ n \notin rPresent
    /\ \E n \in RemainingArtifacts : rMtime[n] >= Now - rRetentionDays

(***************************************************************************)
(* Properties of the transform pipeline.                                   *)
(***************************************************************************)
\* C10: for each of the four flag combinations the backup transform produces
\* an artifact, and the restore transform with the same key gives back the
\* bundle byte for byte.
C10_RoundTripAllFlags ==
    /\ tpc # "raised"
    /\ tpc = "restored" => tRestored = Ok(tBundle)

\* C17: in one run an artifact removed by the count pass is the target of
\* exactly one os.unlink call and of no delete error in the age pass.
C17_DeletedAtMostOnce ==
    rpc = "done"
        => \A n \in rInitial \ rPresent :
              /\ rUnlinkCalls[n] = 1
              /\ <<"age", n>> \notin rErrLog

CountTargets == SeqRange(BeyondMaxBackups(rFiles, rMaxBackups))
AgeTargets == SeqRange(ExpiredEntries(rFiles, rMtime, rRetentionDays))

\* C18: a refused os.unlink is logged and the file stays, every other
\* artifact the pass selected is still deleted, and the run raises only out
\* of the listing, never because a deletion failed.
C18_DeleteFailureNotFatal ==
    /\ rpc = "raised" => rErrLog = {} /\ RemainingArtifacts = rInitial
    /\ rpc \in {"counted", "done"}
          => \A n \in CountTargets :
                IF n \in rLocked
                THEN n \in rPresent /\ <<"count", n>> \in rErrLog
                ELSE n \notin rPresent
    /\ rpc = "done"
          => \A n \in AgeTargets :
                IF n \in rLocked
                THEN n \in rPresent /\ <<"age", n>> \in rErrLog
                ELSE n \notin rPresent

\* a deletion was refused in the count pass and an older artifact, later in
\* the same pass, was deleted all the same
C18_Witness ==
    /\ rpc = "done"
    /\ \E l \in rLocked, n \in rInitial \ rPresent :
          /\ <<"count", l>> \in rErrLog
          /\ l \in rPresent
          /\ n \in CountTargets
          /\ rMtime[n] < rMtime[l]

(***************************************************************************)
(* Properties of the stage sequence of restore_backup.                     *)
(***************************************************************************)
RestoreStageOrder ==
    <<"Verifying", "PreparingWorkspace", "Transforming", "IntegrityChecking",
      "Replacing", "CleaningUp", "Complete">>

\* the stage an invocation is in: the steps of _replace_database are all
\* part of Replacing
RestoreStage(pc) == IF pc \in ReplacingPcs THEN "Replacing" ELSE pc

\* the percentages restore_backup has emitted when it is in its k-th stage
RestorePercent == <<0, 10, 20, 40, 70, 90, 95, 100>>

\* C21: restore_backup leaves Idle into Verifying; from a stage it goes on
\* only to the next stage of Verifying, PreparingWorkspace, Transforming,
\* IntegrityChecking, Replacing, CleaningUp, Complete, or to Failed; and the
\* progress it has emitted is that of the stages before and including the
\* one it is in, each once.
C21_RestoreStagesInOrder ==
    [][\A i \in Invocations :
          LET s == RestoreStage(inv[i].pc)
              t == RestoreStage(inv'[i].pc)
          IN  /\ (inv[i].pc = "Idle" /\ inv'[i].op = "restore")
                    => t = "Verifying"
              /\ (inv[i].op = "restore" /\ InProgress(i) /\ inv'[i] # inv[i])
                    => \/ t = "Failed" /\ inv'[i].failedAt = s
                       \/ t = s /\ s = "Replacing"
                       \/ \E k \in 1..(Len(RestoreStageOrder) - 1) :
                             /\ s = RestoreStageOrder[k]
                             /\ t = RestoreStageOrder[k + 1]
                             /\ inv'[i].progress = SubSeq(RestorePercent, 1, k + 2)
              /\ (inv[i].op = "restore" /\ inv[i].pc \in Terminated
                     /\ inv'[i] # inv[i])
                    => inv'[i].pc = "Idle"]_vars

\* a restore that went through every stage
C21_Witness ==
    \E i \in Invocations :
        /\ inv[i].op = "restore"
        /\ inv[i].pc = "Complete"
        /\ inv[i].progress = RestorePercent

(***************************************************************************)
(* Properties of list_backups and of the shared directory.                 *)
(***************************************************************************)
\* C22: list_backups returns one entry (name, path, size, modified) for each
\* file of the directory whose name ends in '.marka' and no other, ordered
\* from the newest modification time to the oldest, and leaves the directory
\* as it was.
C22_ListBackupsNewestFirst ==
    lpc = "returned"
        => /\ Len(lResult) = Cardinality(RemainingArtifacts)
           /\ {lResult[k].name : k \in DOMAIN lResult} = RemainingArtifacts
           /\ \A k \in DOMAIN lResult :
                 /\ lResult[k].path = <<"backups", lResult[k].name>>
                 /\ lResult[k].size = Len(rData[lResult[k].name])
           /\ \A j, k \in DOMAIN lResult :
                 j < k => rMtime[lResult[j].name] >= rMtime[lResult[k].name]
           /\ RemainingArtifacts = rInitial

\* C23: when another actor has removed an artifact that the running
\* list_backups or _apply_retention_policy had listed, the operation does
\* not raise; it returns, or carries out its passes, for the artifacts left.
C23_DeletionRaceTolerated ==
    /\ lRemoved \cap SeqRange(lNames) # {} => lpc # "raised"
    /\ lRemoved \cap SeqRange(rFiles) # {} => rpc # "raised"

\* C24: a start of the process, that is the construction of a BackupManager
\* on the directory, leaves no '.tmp' file in the backup directory, whatever
\* an interrupted create_backup had left there.
C24_NoOrphanTmpAfterStartup ==
    [][(process = "stopped" /\ process' = "running")
          => rPresent' \cap TmpNames = {}]_vars

(***************************************************************************)
(* Properties of the order of the transform steps.                         *)
(***************************************************************************)
\* C25: the artifact of a backup with both flags is a Fernet token whose
\* plaintext is the compressed bundle (compression first, encryption
\* second).  The restore transform never raises; it decrypts first and then
\* decompresses, and a step that fails hands its input on unchanged: an
\* artifact that is neither a token for the key nor a zlib stream comes out
\* as it went in.
C25_TransformOrder ==
    LET dec == FernetDecrypt(tKey, tArtifact.data)
        afterDecrypt == IF dec.ok THEN dec.data ELSE tArtifact.data
        unz == ZlibDecompress(afterDecrypt)
    IN  /\ (tpc \in {"stored", "restored"} /\ tCompress /\ tEncrypt)
              => dec.ok /\ dec.data = ZlibCompress(tBundle)
        /\ (tpc \in {"stored", "restored"} /\ ~tCompress /\ tEncrypt)
              => dec.ok /\ dec.data = tBundle
        /\ (tpc \in {"stored", "restored"} /\ tCompress /\ ~tEncrypt)
              => ~dec.ok /\ tArtifact.data = ZlibCompress(tBundle)
        /\ tpc = "restored"
              => /\ tRestored.ok
                 /\ tRestored.data = IF unz.ok THEN unz.data ELSE afterDecrypt

\* an artifact stored without compression and without encryption went
\* through both failed detection steps and came out unchanged
C25_Witness ==
    /\ tpc = "restored"
    /\ ~FernetDecrypt(tKey, tArtifact.data).ok
    /\ ~ZlibDecompress(tArtifact.data).ok
    /\ tRestored = Ok(tArtifact.data)

(***************************************************************************)
(* Properties of the end of a restore.                                     *)
(***************************************************************************)
\* C26: when restore_backup has completed, the .pre-restore snapshot is gone
\* unless its deletion failed, the restore workspace is gone unless its
\* deletion failed, and an invocation in which such a deletion failed has
\* not failed for it: it goes on to Complete.
C26_CleanedUpAfterSuccess ==
    \A i \in Invocations :
        /\ (inv[i].op = "restore" /\ inv[i].pc = "Complete")
              => /\ "snapshot" \notin inv[i].swallowed => ~snapshot.ok
                 /\ "workspace" \notin inv[i].swallowed => ~restoreDir
        /\ inv[i].swallowed # {} => inv[i].pc \in {"CleaningUp", "Complete"}

\* a restore that replaced the database, deleted the snapshot and completed
\* although the workspace could not be deleted
C26_Witness ==
    \E i \in Invocations :
        /\ inv[i].op = "restore"
        /\ inv[i].pc = "Complete"
        /\ live = GoodDb
        /\ inv[i].swallowed = {"workspace"}
        /\ ~snapshot.ok
        /\ restoreDir

\* C27: restore_backup never terminates, with success or with an error,
\* leaving closed a database manager that was open when it was called:
\* after the close of the Replacing stage the manager is initialised again
\* (runs in which the initialize of the rollback was called and itself
\* failed are left out).
C27_ManagerReinitialised ==
    \A i \in Invocations :
        (inv[i].op = "restore" /\ inv[i].pc \in Terminated
           /\ inv[i].openAtCall /\ ~inv[i].reinit)
            => dmOpen

(***************************************************************************)
(* Properties of the retention pass inside create_backup.                  *)
(***************************************************************************)
\* C28: with max_backups >= 1 and retention_days >= 1, a create_backup call
\* that meets no fault returns the path of its artifact, and the file is
\* there when it returns: the retention pass at its end has not deleted it.
C28_RetentionKeepsNewArtifact ==
    \A i \in Invocations :
        (/\ CreateOf(i)
         /\ inv[i].env = "none"
         /\ FernetKeyValid(encryption_key)
         /\ dmKind = "async"
         /\ rMaxBackups >= 1
         /\ rRetentionDays >= 1)
            => /\ inv[i].pc = "Complete"
               /\ <<inv[i].name, "marka">> \in rPresent

(***************************************************************************)
(* Properties of the login lockout and of the rate limiter.                *)
(***************************************************************************)
\* C29: over any sequence of the three login calls, check_login_attempts
\* answers allowed=true only when fewer than max_login_attempts failures
\* were recorded since the last successful login or the last lockout that
\* ran out, and never before the lockout it last reported has run out.
C29_LockoutHolds ==
    loginResult.made
        => /\ loginResult.allowed => loginResult.failures < MaxLoginAttempts
           /\ loginResult.at < lockDeadline => ~loginResult.allowed

\* the calls answered allowed=true in the window of length w that ends at
\* time t, the end included and the start excluded
AllowedInWindow(t, w) ==
    Cardinality({k \in DOMAIN allowedLog : allowedLog[k] > t - w /\ allowedLog[k] <= t})

\* C30: over any sequence of check_rate_limit calls with one max_requests
\* and one window_ms, no window of length window_ms holds more than
\* max_requests calls answered allowed=true, only calls answered
\* allowed=true are recorded as requests, and the 'remaining' of an answer
\* is max_requests minus the requests recorded in the window that ends at
\* the call.
C30_RateLimitHolds ==
    /\ \A t \in 0..MaxClock : AllowedInWindow(t, window_ms) <= MaxRequests
    /\ \A t \in 0..MaxClock :
          Len(SelectSeq(rate_limiters.requests, LAMBDA r : r = t))
             <= Len(SelectSeq(allowedLog, LAMBDA a : a = t))
    /\ rateResult.made
          => rateResult.remaining =
                MaxRequests - AllowedInWindow(rateResult.at, window_ms)

====
